---- MODULE Spec2Model ----
(***************************************************************************)
(* Model of the two notebooks of the repository:                           *)
(*   - the wav2vec 2.0 speech-recognition inference notebook               *)
(*     (src/unnamed/part_000), referred to as notebook "asr";              *)
(*   - the named-entity-recognition notebook                               *)
(*     (src/natural-language-processing/name-entity-extraction.ipynb),     *)
(*     referred to as notebook "ner".                                      *)
(* A notebook is a list of code cells run in order by one kernel; an       *)
(* exception raised by a cell stops the run.  Tensors are functions over   *)
(* 0-based index ranges, as in the Python source.                          *)
(***************************************************************************)
EXTENDS Integers, Sequences, FiniteSets, TLC

VARIABLES
    notebook,               \* which notebook the kernel runs: "asr" or "ner"
    pc,                     \* the next code cell to execute, "done" after the last
    failed,                 \* "none", or the kind of exception that stopped the run
    log,                    \* history: the steps completed so far, in order
    session,                \* per model object: state of its device session
    detachCalls,            \* history: every detachFromDevice call made
    launched,               \* the pipelines whose UI demo has been launched
    reruns,                 \* number of manual re-executions of a release cell
    num_device_iterations,  \* part_000:125
    max_samples,            \* part_000:162
    ds,                     \* the processed utterances ds[i] (input_values[0])
    x,                      \* part_000:204, the tensor being filled
    i,                      \* part_000:206, the loop index of the build cell
    batch,                  \* part_000:213, batch["input_values"]
    built,                  \* history: the batches completed by the build cell
    compiled_shape,         \* shape of sample_batch given to compile (part_000:163)
    logits,                 \* part_000:250
    predicted_ids,          \* part_000:251
    transcription,          \* part_000:252
    num_frames,             \* T: time steps of the output the model returns
    decoded,                \* history: the results of the decode cell
    compilations,           \* number of compilations of inference_model so far
    environ,                \* GRADIO_SHARE_APP in the environment of the kernel
    tagger,                 \* what each pipeline returns for each text
    share_gradio,           \* ipynb:58
    out,                    \* ipynb:165, 201
    launches,               \* history: every launch made, with its share argument
    display                 \* per demo: the value of its HighlightedText

vars == <<notebook, pc, failed, log, session, detachCalls, launched, reruns,
          num_device_iterations, max_samples, ds, x, i, batch, built,
          compiled_shape, logits, predicted_ids, transcription, num_frames,
          decoded, compilations, environ, tagger, share_gradio, out, launches,
          display>>

\* the kernel names bound by the cells of the speech notebook
asrVars == <<x, i, batch, built, compiled_shape, logits, predicted_ids,
             transcription, decoded, compilations>>
\* the inputs of a run: never assigned by any cell
inputVars == <<notebook, num_device_iterations, max_samples, ds, num_frames,
               environ, tagger>>
\* the demos of the NER notebook and the names their cells read
uiVars == <<launched, launches, share_gradio, out, display>>

(***************************************************************************)
(* Bounds of the model.                                                    *)
(***************************************************************************)
MaxN == 2            \* largest num_device_iterations explored
MaxSamples == 2      \* largest max_samples explored (besides the scenario)
MaxBuilds == 2       \* executions of the build cell in one kernel
MaxReruns == 1       \* manual re-executions of release cells
MaxFrames == 3       \* largest number of time steps explored
MaxDecodes == 2      \* executions of the decode cell in one kernel

\* T and C of the inference output [N, T, C]: time steps and classes.
Frames == 0 .. (num_frames - 1)
Classes == {0, 1, 2}
\* Scores the model can return for one class at one time step.
Scores == {-1, 2}

\* Waveforms of the test utterances (float32 samples): 1 and -3 are
\* representable in half precision; 2049, 2051 and -4097 are not (each lies
\* between two neighbouring half values).
Waveform == <<1, 2049, -3, 2051, -4097>>

Undefined == <<>>    \* a Python name that is not bound yet

Range(n) == 0 .. (n - 1)
Len0(s) == Cardinality(DOMAIN s)      \* size of a 0-based vector

\* ds[r]: the first `length` samples of utterance r, as the processor returns
\* them (input_values[0], part_000:207-209).
Sample(r, j) == Waveform[((r + j) % Len(Waveform)) + 1]
Utterance(r, length) == [j \in Range(length) |-> Sample(r, j)]

(***************************************************************************)
(* torch.half conversion of a float32 value (part_000:204, dtype of x):    *)
(* 11 significant bits, round to nearest, ties to even, overflow to        *)
(* infinity (written 65536) above the largest finite half 65504.           *)
(***************************************************************************)
Abs(v) == IF v < 0 THEN -v ELSE v

RECURSIVE Spacing(_, _)
Spacing(a, s) == IF a < 2048 * s THEN s ELSE Spacing(a, 2 * s)

ToHalf(v) ==
    LET a == Abs(v)
        s == Spacing(a, 1)
        q == a \div s
        r == a % s
        up == (2 * r > s) \/ (2 * r = s /\ q % 2 = 1)
        h == (IF up THEN q + 1 ELSE q) * s
        sat == IF h > 65504 THEN 65536 ELSE h
    IN  IF v < 0 THEN -sat ELSE sat

(***************************************************************************)
(* torch.zeros([n, m], dtype=torch.half)  (part_000:204)                   *)
(***************************************************************************)
Zeros(n, m) == [r \in Range(n) |-> [c \in Range(m) |-> 0]]

(***************************************************************************)
(* x[i, :length] = input_values[0]  (part_000:210-211).                    *)
(* The slice :length is clamped to the row, so it has SliceSize entries.   *)
(* The assignment needs the source to have the size of the slice (or size  *)
(* 1, which broadcasts); otherwise the tensor library raises.              *)
(***************************************************************************)
SliceSize(length, size) == IF length < size THEN length ELSE size

AssignFits_Truncating(length, size) == TRUE

AssignFits(length, size) ==
    \/ length = SliceSize(length, size)
    \/ length = 1

SliceAssign_ShiftedByOne(row, src) ==
    [c \in DOMAIN row |->
        IF c >= 1 /\ c - 1 < Len0(src) THEN ToHalf(src[c - 1]) ELSE row[c]]

SliceAssign(row, src) ==
    [c \in DOMAIN row |->
        IF c < SliceSize(Len0(src), Len0(row))
        THEN ToHalf(src[IF Len0(src) = 1 THEN 0 ELSE c])
        ELSE row[c]]

SetRow_AllRows(t, r, row) == [k \in DOMAIN t |-> row]

SetRow(t, r, row) == [t EXCEPT ![r] = row]

(***************************************************************************)
(* torch.argmax(logits, dim=-1)  (part_000:251): per row and time step,    *)
(* the first index of a maximal score over the last axis.                  *)
(***************************************************************************)
ArgMax_OfMin(scores) ==
    CHOOSE c \in DOMAIN scores :
        /\ \A d \in DOMAIN scores : scores[d] >= scores[c]
        /\ \A d \in DOMAIN scores : scores[d] = scores[c] => c <= d

ArgMax(scores) ==
    CHOOSE c \in DOMAIN scores :
        /\ \A d \in DOMAIN scores : scores[d] <= scores[c]
        /\ \A d \in DOMAIN scores : scores[d] = scores[c] => c <= d

ArgMaxLastAxis(t) == [n \in DOMAIN t |-> [f \in DOMAIN t[n] |-> ArgMax(t[n][f])]]

(***************************************************************************)
(* processor.batch_decode(predicted_ids)  (part_000:252): greedy CTC       *)
(* collapse of each row: merge repeated ids, then drop the blank id 0.     *)
(***************************************************************************)
RECURSIVE Collapse_CarriesLastId(_, _)
Collapse_CarriesLastId(ids, f) ==
    IF f >= Len0(ids) THEN <<>>
    ELSE IF \/ ids[f] = 0
            \/ f > 0 /\ ids[f - 1] = ids[f]
            \/ f = 0 /\ predicted_ids # Undefined
                     /\ predicted_ids[0][Len0(ids) - 1] = ids[f]
         THEN Collapse_CarriesLastId(ids, f + 1)
         ELSE <<ids[f]>> \o Collapse_CarriesLastId(ids, f + 1)

RECURSIVE Collapse(_, _)
Collapse(ids, f) ==
    IF f >= Len0(ids) THEN <<>>
    ELSE IF ids[f] = 0 \/ (f > 0 /\ ids[f - 1] = ids[f])
         THEN Collapse(ids, f + 1)
         ELSE <<ids[f]>> \o Collapse(ids, f + 1)

BatchDecode(ids) == [n \in DOMAIN ids |-> Collapse(ids[n], 0)]

(***************************************************************************)
(* The cells of the notebooks, in file order.                              *)
(***************************************************************************)
ASRCells_DecodeFirst ==
    <<"load", "configure", "compile", "dataset", "build", "build_loop",
      "decode", "invoke", "release">>

ASRCells ==
    <<"load", "configure", "compile", "dataset", "build", "build_loop",
      "invoke", "decode", "release">>

NERCells ==
    <<"read_env", "create_ner", "invoke_ner", "define_app", "launch_ner",
      "detach_ner",
      "create_multilingual", "launch_multilingual", "detach_multilingual",
      "create_medical", "launch_medical", "detach_medical">>

Cells == IF notebook = "asr" THEN ASRCells ELSE NERCells

\* Run All: the cell executed after cell c
NextCell(c) ==
    LET k == CHOOSE j \in DOMAIN Cells : Cells[j] = c
    IN  IF k = Len(Cells) THEN "done" ELSE Cells[k + 1]

Models == {"inference_model", "ner_pipeline", "ner_pipeline_multilingual",
           "ner_pipeline_medical"}

NerModels == Models \ {"inference_model"}

(***************************************************************************)
(* os.getenv("GRADIO_SHARE_APP", False) and bool()  (ipynb:58).  The       *)
(* environment holds the variable as a string or not at all: <<>> when it  *)
(* is unset, <<s>> when it is set to s.  getenv returns the string when    *)
(* the variable is set and the default otherwise; bool() of a string is    *)
(* True exactly when the string is not empty.                              *)
(***************************************************************************)
Unset == <<>>
Environments == {Unset, <<"">>, <<"0">>, <<"False">>, <<"1">>, <<"True">>}

StrBool(str) == str # ""

ShareGradio(env) == IF env = Unset THEN FALSE ELSE StrBool(env[1])

(***************************************************************************)
(* The texts a demo may show and what a pipeline may return for them.  A   *)
(* pipeline is a function of its input text; which entities it finds is    *)
(* up to its model, so every assignment of results to texts is explored.   *)
(***************************************************************************)
prompt == "Let's use an app to do some text summarization!"
Texts == {prompt, "Paris is in France"}
Entities == {"[]", "[LOC]"}

\* pipeline(text)
Pipeline(p, text) == tagger[p][text]

\* the inputs of a run of the NER notebook: every environment with
\* pipelines that find nothing, and every choice of pipelines with the
\* variable unset
NerInputs ==
    {<<env, [m \in NerModels |-> [txt \in Texts |-> "[]"]]>> :
        env \in Environments}
    \cup {<<Unset, tg>> : tg \in [NerModels -> [Texts -> Entities]]}

\* the pipeline a cell of the NER notebook works on
CellModel(c) ==
    CASE c \in {"create_ner", "invoke_ner", "define_app", "launch_ner",
                "detach_ner"} -> "ner_pipeline"
      [] c \in {"create_multilingual", "launch_multilingual",
                "detach_multilingual"} -> "ner_pipeline_multilingual"
      [] c \in {"create_medical", "launch_medical", "detach_medical"}
                -> "ner_pipeline_medical"

(***************************************************************************)
(* Initial state: a fresh kernel.  The inputs of the speech notebook are   *)
(* the two sizes and the utterances of the dataset; every utterance length *)
(* from empty to one sample more than max_samples is explored, and the     *)
(* documented scenario N=2, max_length=5, [1,2,3], [4,5] is added.         *)
(***************************************************************************)
Scenario ==
    [n |-> 2, m |-> 5,
     ds |-> [r \in Range(2) |->
                IF r = 0 THEN [j \in Range(3) |-> j + 1]
                         ELSE [j \in Range(2) |-> j + 4]]]

Configs ==
    {[n |-> n, m |-> m, ds |-> [r \in Range(n) |-> Utterance(r, lens[r])]] :
        <<n, m, lens>> \in
            UNION {UNION {{<<n, m, l>> : l \in [Range(n) -> 0 .. (m + 1)]} :
                            m \in 1 .. MaxSamples} : n \in 1 .. MaxN}}
    \cup {Scenario}

Fresh ==
    /\ pc = Cells[1]
    /\ failed = "none"
    /\ log = <<>>
    /\ session = [m \in Models |-> "undefined"]
    /\ detachCalls = {}
    /\ launched = {}
    /\ launches = {}
    /\ share_gradio = Undefined
    /\ out = Undefined
    /\ display = [m \in Models |-> Undefined]
    /\ reruns = 0
    /\ x = Undefined
    /\ i = 0
    /\ batch = Undefined
    /\ built = <<>>
    /\ compiled_shape = Undefined
    /\ logits = Undefined
    /\ predicted_ids = Undefined
    /\ transcription = Undefined
    /\ decoded = <<>>
    /\ compilations = 0

\* time steps of the model output; the single short utterances are explored
\* with every number of time steps up to MaxFrames
FramesFor(cfg) == IF cfg.n = 1 /\ cfg.m = 1 THEN 1 .. MaxFrames ELSE {1}

Init ==
    /\ \/ /\ notebook = "asr"
          /\ \E cfg \in Configs :
                /\ num_device_iterations = cfg.n
                /\ max_samples = cfg.m
                /\ ds = cfg.ds
                /\ num_frames \in FramesFor(cfg)
          /\ environ = Unset
          /\ tagger = Undefined
       \/ /\ notebook = "ner"
          /\ num_device_iterations = 0
          /\ max_samples = 0
          /\ ds = Undefined
          /\ num_frames = 0
          /\ \E inp \in NerInputs :
                /\ environ = inp[1]
                /\ tagger = inp[2]
    /\ Fresh

(***************************************************************************)
(* Kernel: a cell runs when the run reached it and no exception stopped    *)
(* the run.  No cell has a try/except: an exception leaves every name as   *)
(* it was and Run All executes nothing more.                               *)
(***************************************************************************)
Running(nb, cells) == notebook = nb /\ pc \in cells /\ failed = "none"

Fail_WithCleanup(kind) ==
    /\ failed' = kind
    /\ session' = [m \in Models |->
                      IF session[m] = "attached" THEN "detached" ELSE session[m]]
    /\ UNCHANGED <<pc, log, detachCalls, uiVars, reruns, asrVars, inputVars>>

Fail(kind) ==
    /\ failed' = kind
    /\ UNCHANGED <<pc, log, session, detachCalls, uiVars, reruns, asrVars,
                   inputVars>>

\* the cell completed: Run All goes on with the next one
Step(name) ==
    /\ pc' = NextCell(pc)
    /\ log' = Append(log, name)
    /\ failed' = failed

(***************************************************************************)
(* The device runtime, as the notebooks use it.                            *)
(***************************************************************************)
\* model(...) or pipeline(...): compiles if needed and attaches if needed
Invoked(m) == [session EXCEPT ![m] = "attached"]

\* model.isAttachedToDevice()
IsAttachedToDevice(m) == session[m] = "attached"

\* model.detachFromDevice(): releases an attached session; the runtime
\* raises when the session is not attached
DetachFromDevice(m) ==
    /\ detachCalls' = detachCalls \cup {[model |-> m, attached |-> IsAttachedToDevice(m)]}
    /\ IF IsAttachedToDevice(m)
       THEN /\ session' = [session EXCEPT ![m] = "detached"]
            /\ failed' = failed
       ELSE /\ session' = session
            /\ failed' = "library"

(***************************************************************************)
(* Speech notebook (part_000), one action per cell; the first code cell    *)
(* of the model has two positions (load, configure) and the build cell has *)
(* one position per loop iteration.                                        *)
(***************************************************************************)
\* part_000:122-123  processor and model from_pretrained(checkpoint_directory)
LoadCheckpoint ==
    /\ Running("asr", {"load"})
    /\ \/ Fail("library")
       \/ /\ Step("load")
          /\ UNCHANGED <<session, detachCalls, uiVars, reruns, asrVars, inputVars>>

\* part_000:125-132  IPUConfig, to_options, to_pipelined, poptorch.inferenceModel
ConfigureDevice ==
    /\ Running("asr", {"configure"})
    /\ \/ Fail("library")
       \/ /\ Step("configure")
          /\ session' = [session EXCEPT !["inference_model"] = "unattached"]
          /\ UNCHANGED <<detachCalls, uiVars, reruns, asrVars, inputVars>>

\* part_000:162-165  sample_batch of zeros, inference_model.compile(**sample_batch)
SampleBatchShape_SingleRow == <<1, max_samples, "half">>

\* part_000:163  torch.zeros([num_device_iterations, max_samples], dtype=torch.half)
SampleBatchShape == <<num_device_iterations, max_samples, "half">>

\* shape and dtype of a tensor allocated as x is (part_000:204)
ShapeOf(t) == <<Len0(t), Len0(t[0]), "half">>

Compile ==
    /\ Running("asr", {"compile"})
    /\ \/ Fail("library")
       \/ /\ Step("compile")
          /\ compiled_shape' = SampleBatchShape
          /\ compilations' = compilations + 1
          /\ session' = [session EXCEPT !["inference_model"] = "compiled"]
          /\ UNCHANGED <<detachCalls, uiVars, reruns, x, i, batch, built,
                         decoded, logits, predicted_ids, transcription,
                         inputVars>>

\* part_000:185  ds = load_dataset(...)
LoadDataset ==
    /\ Running("asr", {"dataset"})
    /\ \/ Fail("library")
       \/ /\ Step("dataset")
          /\ UNCHANGED <<session, detachCalls, uiVars, reruns, asrVars, inputVars>>

\* part_000:204  x = torch.zeros([num_device_iterations, max_samples]); the
\* for statement starts at i = 0
BuildStart_KeepsIndex ==
    /\ Running("asr", {"build"})
    /\ x' = Zeros(num_device_iterations, max_samples)
    /\ pc' = NextCell(pc)
    /\ UNCHANGED <<i, failed, log, session, detachCalls, uiVars, reruns, batch,
                   built, decoded, compilations, compiled_shape, logits,
                   predicted_ids, transcription, inputVars>>

BuildStart ==
    /\ Running("asr", {"build"})
    /\ x' = Zeros(num_device_iterations, max_samples)
    /\ i' = 0
    /\ pc' = NextCell(pc)
    /\ UNCHANGED <<failed, log, session, detachCalls, uiVars, reruns, batch,
                   built, decoded, compilations, compiled_shape, logits,
                   predicted_ids, transcription, inputVars>>

\* part_000:206-211  one iteration of the loop: process utterance i, write row i
BuildIteration ==
    /\ Running("asr", {"build_loop"})
    /\ i < num_device_iterations
    /\ \/ Fail("library")
       \/ /\ ~AssignFits(Len0(ds[i]), max_samples)
          /\ Fail("shape")
       \/ /\ AssignFits(Len0(ds[i]), max_samples)
          /\ x' = SetRow(x, i, SliceAssign(x[i], ds[i]))
          /\ i' = i + 1
          /\ UNCHANGED <<pc, failed, log, session, detachCalls, uiVars, reruns,
                         batch, built, decoded, compilations, compiled_shape,
                         logits, predicted_ids, transcription, inputVars>>

\* part_000:213  batch = {"input_values": x}, after the last iteration
BuildEnd ==
    /\ Running("asr", {"build_loop"})
    /\ i = num_device_iterations
    /\ batch' = x
    /\ built' = Append(built, x)
    /\ Step("build")
    /\ UNCHANGED <<session, detachCalls, uiVars, reruns, x, i, compiled_shape,
                   logits, predicted_ids, transcription, decoded, compilations,
                   inputVars>>

\* the user executes the build cell again before going on
RerunBuild ==
    /\ Running("asr", {"invoke"})
    /\ Len(built) < MaxBuilds
    /\ pc' = "build"
    /\ UNCHANGED <<failed, log, session, detachCalls, uiVars, reruns, asrVars,
                   inputVars>>

\* part_000:232  output = inference_model(**batch); the runtime compiles
\* again when the input differs in shape or dtype from what it compiled for
RunInference ==
    /\ Running("asr", {"invoke"})
    /\ \/ Fail("library")
       \/ /\ Step("invoke")
          /\ session' = Invoked("inference_model")
          /\ IF ShapeOf(batch) = compiled_shape
             THEN UNCHANGED <<compiled_shape, compilations>>
             ELSE /\ compiled_shape' = ShapeOf(batch)
                  /\ compilations' = compilations + 1
          /\ logits' \in [DOMAIN batch -> [Frames -> [Classes -> Scores]]]
          /\ UNCHANGED <<detachCalls, uiVars, reruns, x, i, batch, built,
                         decoded, predicted_ids, transcription, inputVars>>

\* part_000:250-252  argmax over the last axis, then batch_decode
Decode ==
    /\ Running("asr", {"decode"})
    /\ \/ Fail("library")
       \/ /\ Step("decode")
          /\ predicted_ids' = ArgMaxLastAxis(logits)
          /\ transcription' = BatchDecode(ArgMaxLastAxis(logits))
          /\ decoded' = Append(decoded,
                               [ids |-> ArgMaxLastAxis(logits),
                                text |-> BatchDecode(ArgMaxLastAxis(logits))])
          /\ UNCHANGED <<session, detachCalls, uiVars, reruns, x, i, batch,
                         built, compilations, compiled_shape, logits, inputVars>>

\* the user executes the decode cell again before going on
RerunDecode ==
    /\ Running("asr", {"release"})
    /\ Len(decoded) < MaxDecodes
    /\ pc' = "decode"
    /\ UNCHANGED <<failed, log, session, detachCalls, uiVars, reruns, asrVars,
                   inputVars>>

\* part_000:280-281  if inference_model.isAttachedToDevice(): detachFromDevice()
GuardedDetach(m) ==
    IF IsAttachedToDevice(m)
    THEN DetachFromDevice(m)
    ELSE UNCHANGED <<session, detachCalls, failed>>

ReleaseDevice ==
    /\ Running("asr", {"release"})
    /\ GuardedDetach("inference_model")
    /\ pc' = NextCell(pc)
    /\ log' = Append(log, "release")
    /\ UNCHANGED <<uiVars, reruns, asrVars, inputVars>>

\* "it may be necessary to manually run the following cell" (part_000:271):
\* the release cell executed again after the run
RerunReleaseDevice ==
    /\ Running("asr", {"done"})
    /\ reruns < MaxReruns
    /\ reruns' = reruns + 1
    /\ GuardedDetach("inference_model")
    /\ log' = Append(log, "release")
    /\ UNCHANGED <<pc, uiVars, asrVars, inputVars>>

(***************************************************************************)
(* NER notebook (name-entity-extraction.ipynb), one action per kind of     *)
(* cell.                                                                   *)
(***************************************************************************)
\* ipynb:56-58  share_gradio = bool(os.getenv("GRADIO_SHARE_APP", False))
ReadEnvironment ==
    /\ Running("ner", {"read_env"})
    /\ Step(pc)
    /\ share_gradio' = ShareGradio(environ)
    /\ UNCHANGED <<session, detachCalls, launched, launches, out, display,
                   reruns, asrVars, inputVars>>

\* ipynb:103-106  ner_pipeline = pipelines.pipeline("ner", ...)
CreatePipeline ==
    /\ Running("ner", {"create_ner"})
    /\ \/ Fail("library")
       \/ /\ Step(pc)
          /\ session' = [session EXCEPT ![CellModel(pc)] = "unattached"]
          /\ UNCHANGED <<detachCalls, uiVars, reruns, asrVars, inputVars>>

\* ipynb:143  output_ner = ner_pipeline(ner_examples[0])
\* ipynb:165  out = ner_pipeline(prompt), followed by def app_for_pipeline
InvokePipeline ==
    /\ Running("ner", {"invoke_ner", "define_app"})
    /\ \/ Fail("library")
       \/ /\ Step(pc)
          /\ session' = Invoked(CellModel(pc))
          /\ out' = IF pc = "define_app" THEN Pipeline("ner_pipeline", prompt)
                                         ELSE out
          /\ UNCHANGED <<detachCalls, launched, launches, share_gradio, display,
                         reruns, asrVars, inputVars>>

\* ipynb:259-264, 342-349  create the pipeline and call it on the prompt
CreateAndInvokePipeline ==
    /\ Running("ner", {"create_multilingual", "create_medical"})
    /\ \/ Fail("library")
       \/ /\ Step(pc)
          /\ session' = Invoked(CellModel(pc))
          /\ UNCHANGED <<detachCalls, uiVars, reruns, asrVars, inputVars>>

\* ipynb:201-202  out = ner_pipeline(prompt); app_for_pipeline(...).launch(...)
\* ipynb:298-299, 384-388  app_for_pipeline(...).launch(...)
\* ipynb:178  the demo first shows value=dict(text=prompt, entities=out), out
\* being the name of the kernel
\* launch returns at once in a notebook; the demo keeps serving
LaunchDemo ==
    /\ Running("ner", {"launch_ner", "launch_multilingual", "launch_medical"})
    /\ \/ Fail("library")
       \/ /\ Step(pc)
          /\ session' = IF pc = "launch_ner" THEN Invoked(CellModel(pc)) ELSE session
          /\ out' = IF pc = "launch_ner" THEN Pipeline("ner_pipeline", prompt)
                                         ELSE out
          /\ display' = [display EXCEPT ![CellModel(pc)] =
                            [text |-> prompt, entities |-> out']]
          /\ launched' = launched \cup {CellModel(pc)}
          /\ launches' = launches \cup
                            {[demo |-> CellModel(pc), share |-> share_gradio]}
          /\ UNCHANGED <<detachCalls, share_gradio, reruns, asrVars, inputVars>>

\* ipynb:224, 317, 404  <pipeline>.model.detachFromDevice()
DetachPipeline ==
    /\ Running("ner", {"detach_ner", "detach_multilingual", "detach_medical"})
    /\ DetachFromDevice(CellModel(pc))
    /\ IF IsAttachedToDevice(CellModel(pc))
       THEN pc' = NextCell(pc) /\ log' = Append(log, pc)
       ELSE UNCHANGED <<pc, log>>
    /\ UNCHANGED <<uiVars, reruns, asrVars, inputVars>>

\* ipynb:181-184  inputs.change(fn=lambda x: dict(text=x, entities=pipeline(x)))
\* the user edits the text box of a launched demo; the server thread calls
\* the pipeline of that demo
TextChange(m) ==
    /\ notebook = "ner"
    /\ m \in launched
    /\ \E txt \in Texts :
          display' = [display EXCEPT ![m] =
                         [text |-> txt, entities |-> Pipeline(m, txt)]]
    /\ session' = Invoked(m)
    /\ UNCHANGED <<pc, failed, log, detachCalls, launched, launches,
                   share_gradio, out, reruns, asrVars, inputVars>>

\* a release cell of the NER notebook executed again after the run
RerunDetachPipeline(m) ==
    /\ Running("ner", {"done"})
    /\ m \in Models \ {"inference_model"}
    /\ reruns < MaxReruns
    /\ reruns' = reruns + 1
    /\ DetachFromDevice(m)
    /\ UNCHANGED <<pc, log, uiVars, asrVars, inputVars>>

Next ==
    \/ LoadCheckpoint
    \/ ConfigureDevice
    \/ Compile
    \/ LoadDataset
    \/ BuildStart
    \/ BuildIteration
    \/ BuildEnd
    \/ RerunBuild
    \/ RunInference
    \/ Decode
    \/ ReleaseDevice
    \/ RerunReleaseDevice
    \/ ReadEnvironment
    \/ CreatePipeline
    \/ InvokePipeline
    \/ CreateAndInvokePipeline
    \/ LaunchDemo
    \/ DetachPipeline
    \/ \E m \in Models : TextChange(m)
    \/ \E m \in Models : RerunDetachPipeline(m)

Spec == Init /\ [][Next]_vars

(***************************************************************************)
(* The decode cell on its own (part_000:250-252): the kernel is in a state *)
(* Run All leaves after the invoke cell, with any output the model may     *)
(* have returned for a single short utterance, and the user executes the   *)
(* decode cell up to MaxDecodes times.                                     *)
(***************************************************************************)
DecodeInit ==
    /\ notebook = "asr"
    /\ \E cfg \in Configs :
          /\ cfg.n = 1 /\ cfg.m = 1
          /\ AssignFits(Len0(cfg.ds[0]), cfg.m)
          /\ num_device_iterations = cfg.n
          /\ max_samples = cfg.m
          /\ ds = cfg.ds
          /\ num_frames \in FramesFor(cfg)
          /\ x = [r \in Range(cfg.n) |->
                    SliceAssign(Zeros(cfg.n, cfg.m)[r], cfg.ds[r])]
    /\ i = num_device_iterations
    /\ batch = x
    /\ built = <<x>>
    /\ pc = "decode"
    /\ failed = "none"
    /\ log = <<"load", "configure", "compile", "dataset", "build", "invoke">>
    /\ session = [m \in Models |->
                    IF m = "inference_model" THEN "attached" ELSE "undefined"]
    /\ detachCalls = {}
    /\ launched = {}
    /\ launches = {}
    /\ share_gradio = Undefined
    /\ out = Undefined
    /\ display = [m \in Models |-> Undefined]
    /\ environ = Unset
    /\ tagger = Undefined
    /\ reruns = 0
    /\ compiled_shape = SampleBatchShape
    /\ compilations = 1
    /\ logits \in [DOMAIN batch -> [Frames -> [Classes -> Scores]]]
    /\ predicted_ids = Undefined
    /\ transcription = Undefined
    /\ decoded = <<>>

DecodeNext ==
    \/ Decode
    \/ RerunDecode

DecodeSpec == DecodeInit /\ [][DecodeNext]_vars

TypeOK ==
    /\ notebook \in {"asr", "ner"}
    /\ pc \in {Cells[k] : k \in DOMAIN Cells} \cup {"done"}
    /\ failed \in {"none", "library", "shape"}
    /\ session \in [Models -> {"undefined", "unattached", "compiled", "attached",
                               "detached"}]
    /\ launched \subseteq Models
    /\ reruns \in 0 .. MaxReruns
    /\ i \in 0 .. num_device_iterations
    /\ num_frames \in 0 .. MaxFrames
    /\ Len(decoded) \in 0 .. MaxDecodes
    /\ compilations \in 0 .. (MaxBuilds + 1)

(***************************************************************************)
(* Properties of the batch builder.                                        *)
(***************************************************************************)
Rows == Range(num_device_iterations)
Cols == Range(max_samples)
ZeroRow == [c \in Cols |-> 0]
AllFit == \A r \in Rows : Len0(ds[r]) <= max_samples
Built == notebook = "asr" /\ batch # Undefined

\* C1 as stated: when every sequence fits, the batch has shape
\* [N, max_length], row i starts with sequence i exactly as given and every
\* remaining entry is zero.
C1_RowsEqualInputExactly ==
    (Built /\ AllFit) =>
        /\ DOMAIN batch = Rows
        /\ \A r \in Rows :
            /\ DOMAIN batch[r] = Cols
            /\ \A c \in Cols :
                batch[r][c] = IF c < Len0(ds[r]) THEN ds[r][c] ELSE 0

\* C1 amended: when every sequence fits, the batch has shape [N, max_length],
\* row i starts with sequence i converted to half precision (unchanged where
\* the value is representable, as for magnitudes up to 2048) and every
\* remaining entry is zero; a sequence of length max_length fills its row;
\* N=2, max_length=5, [1,2,3], [4,5] give [[1,2,3,0,0],[4,5,0,0,0]].
C1_RowsEqualInputInHalf ==
    (Built /\ AllFit) =>
        /\ DOMAIN batch = Rows
        /\ \A r \in Rows :
            /\ DOMAIN batch[r] = Cols
            /\ \A c \in Cols :
                /\ c < Len0(ds[r]) => batch[r][c] = ToHalf(ds[r][c])
                /\ (c < Len0(ds[r]) /\ Abs(ds[r][c]) <= 2048) => batch[r][c] = ds[r][c]
                /\ c >= Len0(ds[r]) => batch[r][c] = 0
        /\ (max_samples = Scenario.m /\ ds = Scenario.ds) =>
              /\ batch[0] = [c \in Range(5) |-> IF c < 3 THEN c + 1 ELSE 0]
              /\ batch[1] = [c \in Range(5) |-> IF c < 2 THEN c + 4 ELSE 0]

\* a batch with a full row, a padded row and an entry changed by the conversion
C1_Witness ==
    /\ Built
    /\ \E r \in Rows : Len0(ds[r]) = max_samples
    /\ \E r \in Rows : Len0(ds[r]) < max_samples /\ Len0(ds[r]) > 0
    /\ \E r \in Rows : \E c \in Cols : c < Len0(ds[r]) /\ batch[r][c] # ds[r][c]

\* iteration r of the build loop has been executed
Attempted(r) ==
    /\ notebook = "asr"
    /\ x # Undefined
    /\ \/ i > r
       \/ i = r /\ pc = "build_loop" /\ failed = "shape"

\* C2 as stated: a sequence longer than max_length raises no error; row i
\* holds the first max_length entries of the sequence and the loop goes on.
C2_OverflowTruncatesSilently ==
    \A r \in Rows :
        (Attempted(r) /\ Len0(ds[r]) > max_samples) =>
            /\ failed # "shape"
            /\ i > r
            /\ x[r] = [c \in Cols |-> ToHalf(ds[r][c])]

\* C2 amended: with max_length >= 1, a sequence longer than max_length makes
\* the slice assignment of its iteration raise a shape error: the loop never
\* gets past that row, the row and all later rows stay zero, the rows before
\* it keep their values, no batch is produced and no later cell runs.
C2_OverflowRaises ==
    notebook = "asr" =>
        /\ \A r \in Rows :
            Len0(ds[r]) > max_samples =>
                /\ i <= r
                /\ batch = Undefined
                /\ logits = Undefined
                /\ pc \in {"load", "configure", "compile", "dataset", "build",
                           "build_loop"}
                /\ x # Undefined => \A k \in Rows : k >= r => x[k] = ZeroRow
        /\ failed = "shape" =>
                /\ pc = "build_loop"
                /\ Len0(ds[i]) > max_samples
                /\ \A k \in Rows : k < i => x[k] = SliceAssign(ZeroRow, ds[k])
                /\ \A k \in Rows : k >= i => x[k] = ZeroRow

\* the second row overflows after the first one was written
C2_Witness ==
    /\ notebook = "asr"
    /\ failed = "shape"
    /\ i = 1
    /\ x[0] # ZeroRow
    /\ x[1] = ZeroRow

\* C8: executing the builder twice on the same N, max_length and sequences
\* gives identical arrays.
C8_BuilderIdempotent ==
    \A a \in DOMAIN built : \A b \in DOMAIN built : built[a] = built[b]

\* the build cell completed twice on data that is not all zero
C8_Witness ==
    /\ Len(built) = 2
    /\ \E r \in Rows : built[1][r] # ZeroRow
    /\ batch = built[2]

\* C9: building changes nothing but the new array: the inputs and every
\* other name stay as they are, iteration i writes row i only, and after k
\* iterations rows 0..k-1 hold their final values and rows k..N-1 are zero.
C9_BuildFrame ==
    /\ [](notebook = "asr" /\ pc = "build_loop" =>
            \A r \in Rows :
                /\ r < i => x[r] = [c \in Cols |->
                                IF c < Len0(ds[r]) THEN ToHalf(ds[r][c]) ELSE 0]
                /\ r >= i => x[r] = ZeroRow)
    /\ [][(notebook = "asr" /\ pc \in {"build", "build_loop"}) =>
            /\ ds' = ds
            /\ num_device_iterations' = num_device_iterations
            /\ max_samples' = max_samples
            /\ session' = session
            /\ logits' = logits
            /\ predicted_ids' = predicted_ids
            /\ compiled_shape' = compiled_shape
            /\ (pc = "build_loop" /\ x' # x) =>
                    /\ i' = i + 1
                    /\ \A r \in Rows : r # i => x'[r] = x[r]]_vars

\* one of two rows written, the other still zero
C9_Witness ==
    /\ notebook = "asr"
    /\ pc = "build_loop"
    /\ num_device_iterations >= 2
    /\ i = 1
    /\ x[0] # ZeroRow
    /\ x[1] = ZeroRow
    /\ failed = "none"

(***************************************************************************)
(* Properties of the decode cell.                                          *)
(***************************************************************************)
\* C10: the predicted ids have shape [N, T]; predicted_ids[n][t] is a class
\* index in 0..C-1 whose score logits[n][t][c] is maximal over the classes.
C10_ArgMaxIsMaximal ==
    (notebook = "asr" /\ predicted_ids # Undefined) =>
        /\ DOMAIN predicted_ids = Rows
        /\ \A n \in Rows :
            /\ DOMAIN predicted_ids[n] = Frames
            /\ \A t \in Frames :
                /\ predicted_ids[n][t] \in Classes
                /\ \A c \in Classes :
                      logits[n][t][c] <= logits[n][t][predicted_ids[n][t]]

\* two rows decoded to different classes, one of them not the first class
C10_Witness ==
    /\ notebook = "asr"
    /\ predicted_ids # Undefined
    /\ num_device_iterations >= 2
    /\ \E t \in Frames :
        /\ predicted_ids[0][t] # predicted_ids[1][t]
        /\ predicted_ids[1][t] > 0
        /\ \E c \in Classes : logits[1][t][c] < logits[1][t][predicted_ids[1][t]]

(***************************************************************************)
(* Properties of the device session and of the order of the cells.         *)
(***************************************************************************)
Attached == {m \in Models : session[m] = "attached"}

\* C3: every release step asks isAttachedToDevice first: detachFromDevice is
\* only ever called on an attached session, and a release step executed on a
\* detached session is a no-op that raises nothing.
C3_DetachAlwaysGuarded ==
    /\ \A call \in detachCalls : call.attached
    /\ reruns > 0 => failed = "none"

\* C4: in the NER notebook at most one model session is attached at a time.
C4_AtMostOneAttached ==
    notebook = "ner" => Cardinality(Attached) <= 1

\* C5: the steps of the speech notebook happen only in the order load,
\* configure, compile, (dataset, build,) invoke, decode, release; there are
\* logits only once the model is compiled and predicted ids only once there
\* are logits; the session only moves along
\* unattached -> compiled -> attached -> detached.
StepRank(step) ==
    CASE step = "load" -> 1
      [] step = "configure" -> 2
      [] step = "compile" -> 3
      [] step = "dataset" -> 4
      [] step = "build" -> 5
      [] step = "invoke" -> 6
      [] step = "decode" -> 7
      [] step = "release" -> 8

SessionChain ==
    {<<"undefined", "unattached">>, <<"unattached", "compiled">>,
     <<"compiled", "attached">>, <<"attached", "detached">>}

C5_InvocationOrder ==
    /\ [](notebook = "asr" =>
            /\ log # <<>> => log[1] = "load"
            /\ \A k \in 1 .. (Len(log) - 1) :
                  \/ StepRank(log[k + 1]) = StepRank(log[k]) + 1
                  \/ log[k + 1] = log[k] /\ log[k] \in {"build", "release"}
            /\ logits # Undefined =>
                  /\ compiled_shape # Undefined
                  /\ batch # Undefined
                  /\ session["inference_model"] \in {"attached", "detached"}
            /\ predicted_ids # Undefined => logits # Undefined
            /\ session["inference_model"] = "detached" => predicted_ids # Undefined)
    /\ [][notebook = "asr" =>
            \/ session'["inference_model"] = session["inference_model"]
            \/ <<session["inference_model"], session'["inference_model"]>>
                  \in SessionChain]_vars

\* the whole speech notebook ran, the release cell was then run once more
C5_Witness ==
    /\ notebook = "asr"
    /\ pc = "done"
    /\ log = <<"load", "configure", "compile", "dataset", "build", "invoke",
               "decode", "release", "release">>
    /\ session["inference_model"] = "detached"

\* C6: after Run All with no failing step, no session is attached.
C6_ReleasedAfterFullRun ==
    (pc = "done" /\ failed = "none") => Attached = {}

\* C7: a failing step of the speech notebook is not caught or retried: it
\* leaves the position of the run and the session as they were, and once a
\* step failed nothing changes any more (an attached session stays attached).
C7_FailurePropagates ==
    [][notebook = "asr" =>
        /\ (failed = "none" /\ failed' # "none") =>
              /\ pc' = pc
              /\ log' = log
              /\ session' = session
        /\ failed # "none" =>
              /\ failed' = failed
              /\ pc' = pc
              /\ log' = log
              /\ session' = session
              /\ batch' = batch
              /\ logits' = logits
              /\ predicted_ids' = predicted_ids]_vars

\* the decode cell failed while the session was attached
C7_Witness ==
    /\ notebook = "asr"
    /\ failed = "library"
    /\ pc = "decode"
    /\ session["inference_model"] = "attached"

C12_StaticShapeMatch ==
    /\ compilations <= 1
    /\ compiled_shape # Undefined => compiled_shape = SampleBatchShape
    /\ batch # Undefined =>
          /\ compilations = 1
          /\ ShapeOf(batch) = compiled_shape
          /\ Len0(batch) = num_device_iterations * 1
    /\ logits # Undefined =>
          /\ compilations = 1
          /\ Len0(logits) = num_device_iterations

\* the model was invoked on a batch of several utterances
C12_Witness ==
    /\ logits # Undefined
    /\ num_device_iterations >= 2
    /\ ShapeOf(batch) = <<num_device_iterations, max_samples, "half">>
    /\ compilations = 1

\* the values of GRADIO_SHARE_APP that read as true and as false
TrueValues == {"1", "True"}
FalseValues == {"", "0", "False"}

\* C13: a demo is launched with share = True only when GRADIO_SHARE_APP is
\* set to a true value; when it is unset or set to "False", "0" or the empty
\* string, every launch has share = False.
C13_ShareOnlyWhenTrue ==
    \A l \in launches :
        /\ l.share => (environ # Unset /\ environ[1] \in TrueValues)
        /\ (environ = Unset \/ environ[1] \in FalseValues) => ~l.share

\* C14: a session that its release step detached is never attached again:
\* no call of that model follows the detach, the callback of a demo
\* launched before the detach included.
C14_DetachedIsTerminal ==
    \A m \in Models :
        (\E call \in detachCalls : call.model = m /\ call.attached)
            => session[m] # "attached"

\* C15: what a launched demo shows, at first and after any change of the
\* text, is the output of the pipeline the demo was built for on the text
\* it shows; so for the multilingual and the biomedical demo as well.
C15_DisplayFromOwnPipeline ==
    \A m \in launched :
        display[m].entities = Pipeline(m, display[m].text)
====
